---- MODULE Spec2Model ----
(***************************************************************************)
(* The S3 binary cache store of src/libstore/s3-binary-cache-store.cc:     *)
(* the chunked download S3Helper::getObject(bucket, key, sink) with its    *)
(* completion callback, the store operations built on it (getFile,         *)
(* isValidPathUncached), the whole-object getObject(bucket, key), the      *)
(* existence probe (fileExists), the uploader (upsertFile / uploadFile),   *)
(* alone and called by several threads at once, and the bucket listing     *)
(* (queryAllValidPaths).                                                   *)
(*                                                                         *)
(* Bytes are small naturals, strings that the code inspects (object keys)  *)
(* are sequences of one-character strings, a transfer handle is the index  *)
(* of its chunk in submission order.                                       *)
(***************************************************************************)
EXTENDS Integers, Sequences, FiniteSets, TLC

(* ---------------------------------------------------------------- bounds *)

\* Longest payload a session uploads, in bytes.
MaxPayload == 3

\* Largest object a bucket holds before the session starts, in bytes.
MaxObject == 11

\* Most LIST requests one listing is followed for.
MaxPages == 3

\* Most uploads one store instance makes one after the other.
MaxUploads == 2

\* Threads that call uploadFile on one store instance at the same time.
MaxThreads == 2

\* Most invocations of the completion callback for a handle whose terminal
\* status an earlier invocation has dealt with already.
MaxRecalls == 1

\* chunk_size (l.227) is 32 MiB; the model counts it in units that keep the
\* object a handful of chunks long.
chunk_size == 2

\* l.231 and l.234
max_transfers == 3
max_chunks == 5

(* --------------------------------------------------------------- helpers *)

\* A minimum that is its first argument.
Min_first(a, b) == a

Min(a, b) == IF a < b THEN a ELSE b
Max(a, b) == IF a < b THEN b ELSE a

hasSuffix(s, suffix) ==
    /\ Len(s) >= Len(suffix)
    /\ SubSeq(s, Len(s) - Len(suffix) + 1, Len(s)) = suffix

hasPrefix(s, prefix) ==
    /\ Len(s) >= Len(prefix)
    /\ SubSeq(s, 1, Len(prefix)) = prefix

NarinfoSuffix == <<".", "n", "a", "r", "i", "n", "f", "o">>
LsSuffix == <<".", "l", "s">>
LogPrefix == <<"l", "o", "g", "/">>

\* Object keys a session stores and fetches: one per category, one that
\* belongs to none and one that belongs to two (a log whose name ends in
\* .narinfo).
KeyNarinfo == <<"h">> \o NarinfoSuffix
KeyLs == <<"h">> \o LsSuffix
KeyLog == LogPrefix \o <<"h">>
KeyNar == <<"h", ".", "n", "a", "r">>
KeyLogNarinfo == LogPrefix \o <<"h">> \o NarinfoSuffix
Keys == {KeyNarinfo, KeyLs, KeyLog, KeyNar, KeyLogNarinfo}

\* The payload of n bytes: byte i is i, so a byte names its own offset.
Payload(n) == [i \in 1..n |-> i]

\* nix::compress / nix::decompress (compression.hh): a codec frames the data
\* with a header and recodes every byte; decompress with an empty method is
\* the identity, as for an object stored without Content-Encoding.
compress(method, data) ==
    <<99>> \o [i \in 1..Len(data) |-> data[i] + 100]

decompress(method, data) ==
    IF method = "" THEN data
    ELSE [i \in 1..(Len(data) - 1) |-> data[i + 1] - 100]

\* Keys a bucket listing can hold.  A store path's hash part has 32
\* characters, so the .narinfo of a store path is a key of 40 characters.
Hash32a == [i \in 1..32 |-> "a"]
Hash32b == [i \in 1..32 |-> "b"]
Hash40 == [i \in 1..40 |-> "c"]
ListKeys ==
    {Hash32a \o NarinfoSuffix,      \* 40 characters, a .narinfo
     Hash32b \o NarinfoSuffix,      \* 40 characters, a .narinfo
     Hash40 \o NarinfoSuffix,       \* 48 characters, a .narinfo
     Hash40,                        \* 40 characters, no .narinfo
     KeyNarinfo,                    \* a short .narinfo
     <<"n", "i", "x", "-", "c", "a", "c", "h", "e", "-", "i", "n", "f", "o">>}

\* Continuation markers; the empty one ends a listing.
Markers == {<<>>, <<"m", "1">>, <<"m", "2">>}

(* ----------------------------------------------------------------- state *)

VARIABLES
    cfg,                \* S3BinaryCacheStoreConfig: the store's settings
    remote,             \* the bucket: key -> object
    stats,              \* S3BinaryCacheStoreImpl::stats
    net,                \* requests issued to the transport, by kind
    transferManager,    \* the multi-part engine exists (l.454)
    transferManagerCreated, \* the once flag of l.455
    pc,                 \* where the calling thread is
    op,                 \* the store operation in progress
    result,             \* how the last store operation ended
    given,              \* the path and data upsertFile was called with
    object_size,        \* getObject's locals (l.223-235)
    next_chunk_offset,
    handles,            \* every chunk submitted, by handle
    transfers,          \* the keys of the transfers map
    chunks,             \* the deque of futures, as handles
    m,                  \* who holds the mutex m
    sunk,               \* what the sink was called with, in call order
    escaped,            \* exceptions that left the completion callback
    recalls,            \* callbacks for a handle already dealt with
    missing,            \* callbacks that found no entry for their handle
    marker,             \* queryAllValidPaths' locals (l.591-592)
    paths,
    listed,             \* the LIST calls so far: marker sent, marker received
    seen,               \* the keys of the pages received so far
    returned,           \* what queryAllValidPaths returned
    uploads,            \* the uploadFile calls that ended, in order
    engines,            \* how often TransferManager::Create ran (l.492)
    callers,            \* the threads inside uploadFile, by thread
    res                 \* what getObject(bucketName, key) returned (l.185)

storeVars == <<cfg, remote, stats, net, transferManager, transferManagerCreated>>
fetchVars == <<object_size, next_chunk_offset, handles, transfers, chunks, m, sunk,
               escaped, recalls, missing>>
callbackVars == <<recalls, missing>>
listVars == <<marker, paths, listed, seen, returned>>
uploadVars == <<uploads, engines, callers>>
vars == <<cfg, remote, stats, net, transferManager, transferManagerCreated,
          pc, op, result, given,
          object_size, next_chunk_offset, handles, transfers, chunks, m, sunk,
          escaped, recalls, missing, marker, paths, listed, seen, returned,
          uploads, engines, callers, res>>

Absent == [present |-> FALSE, body |-> <<>>, enc |-> ""]

NoOp == [name |-> "none", key |-> <<>>]
NoResult == [name |-> "none", outcome |-> "none", err |-> ""]

\* The codecs a store may be configured with ("" is the default: none).
Codecs == {"", "xz"}

Configs ==
    [multipartUpload : BOOLEAN, narinfoCompression : Codecs,
     lsCompression : Codecs, logCompression : Codecs]

\* Aws::S3::S3Errors, as far as the code tells them apart.
S3Errors == {"NO_SUCH_KEY", "ACCESS_DENIED", "NETWORK_CONNECTION"}

\* Aws::Transfer::TransferStatus values a finished transfer can have; FAILED
\* stands for every status of the default case of l.254 (FAILED, CANCELED,
\* ABORTED), which the code does not tell apart.
TerminalStatus == {"COMPLETED", "FAILED"}

\* A FileTransferResult whose data is not set.
NoData == [set |-> FALSE, data |-> <<>>]

InitFetch ==
    /\ object_size = 0
    /\ next_chunk_offset = 0
    /\ handles = <<>>
    /\ transfers = {}
    /\ chunks = <<>>
    /\ m = "free"
    /\ sunk = <<>>
    /\ escaped = 0
    /\ recalls = 0
    /\ missing = 0

InitList ==
    /\ marker = <<>>
    /\ paths = {}
    /\ listed = <<>>
    /\ seen = {}
    /\ returned = [set |-> FALSE, paths |-> {}]

\* The threads that upload at the same time, and a thread outside uploadFile.
Threads == 1..MaxThreads

IdleCaller == [pc |-> "idle", key |-> <<>>, n |-> 0]

InitUpload ==
    /\ uploads = <<>>
    /\ engines = 0
    /\ callers = [t \in Threads |-> IdleCaller]

Init ==
    /\ cfg \in Configs
    /\ remote = [k \in Keys |-> Absent]
    /\ stats = [put |-> 0, putBytes |-> 0, get |-> 0, getBytes |-> 0, head |-> 0]
    /\ net = [head |-> 0, get |-> 0, put |-> 0, upload |-> 0, list |-> 0]
    /\ transferManager = FALSE
    /\ transferManagerCreated = FALSE
    /\ pc = "idle"
    /\ op = NoOp
    /\ result = NoResult
    /\ given = [key |-> <<>>, data |-> <<>>]
    /\ InitFetch
    /\ InitList
    /\ InitUpload
    /\ res = NoData

(* ---------------------------------------------------------------- upload *)

\* A plan that lets the first category the key belongs to decide, codec or
\* not.
upsertFile_plan_firstCategory(c, path, data) ==
    LET codec == IF hasSuffix(path, NarinfoSuffix) THEN c.narinfoCompression
                 ELSE IF hasSuffix(path, LsSuffix) THEN c.lsCompression
                 ELSE IF hasPrefix(path, LogPrefix) THEN c.logCompression
                 ELSE ""
    IN  IF codec # ""
        THEN [body |-> compress(codec, data), contentEncoding |-> codec]
        ELSE [body |-> data, contentEncoding |-> ""]

\* upsertFile (l.551-569): the stream and the content encoding handed to
\* uploadFile, chosen by the first category of the key that has a codec.
upsertFile_plan(c, path, data) ==
    IF c.narinfoCompression # "" /\ hasSuffix(path, NarinfoSuffix)
    THEN [body |-> compress(c.narinfoCompression, data),
          contentEncoding |-> c.narinfoCompression]
    ELSE IF c.lsCompression # "" /\ hasSuffix(path, LsSuffix)
    THEN [body |-> compress(c.lsCompression, data),
          contentEncoding |-> c.lsCompression]
    ELSE IF c.logCompression # "" /\ hasPrefix(path, LogPrefix)
    THEN [body |-> compress(c.logCompression, data),
          contentEncoding |-> c.logCompression]
    ELSE [body |-> data, contentEncoding |-> ""]

\* A once flag that lets every caller run the callable.
call_once_active_always(created) == TRUE

\* l.471: std::call_once runs its callable for the first caller only; a
\* caller that arrives while it runs waits until it has finished.
call_once_active(created) == ~created

\* l.471-494: std::call_once creates the engine if multipartUpload is set.
call_once_transferManager(created, manager, c) ==
    IF call_once_active(created) THEN c.multipartUpload ELSE manager

\* An uploader that does not look at the content encoding.
uploadFile_conflict_never(manager, contentEncoding) == FALSE

\* l.498-501: the engine cannot set a content encoding.
uploadFile_conflict(manager, contentEncoding) ==
    manager /\ contentEncoding # ""

\* What the transport can answer to one upload: the engine's terminal
\* TransferStatus with the message of GetLastError() (l.509-517), or
\* PutObject's outcome (l.533-534).
UploadAnswers(manager) ==
    IF manager
    THEN {[status |-> "COMPLETED", message |-> ""],
          [status |-> "FAILED", message |-> "timeout"],
          [status |-> "FAILED", message |-> "reset"],
          [status |-> "CANCELED", message |-> "reset"]}
    ELSE {[status |-> e, message |-> ""] : e \in {"OK"} \cup S3Errors}

\* l.473-493: the engines that one run of the callable creates.
TransferManager_Create(c) == IF c.multipartUpload THEN 1 ELSE 0

\* An uploader that takes every status but FAILED for success.
uploadFile_status_failedOnly(manager, answer) ==
    IF answer.status = "FAILED"
    THEN [outcome |-> "Error", err |-> "failed to upload", message |-> answer.message]
    ELSE [outcome |-> "ok", err |-> "", message |-> ""]

\* How uploadFile ends once the transfer has: l.511-517 after
\* WaitUntilFinished on the multi-part path, checkAws (l.533) on the other.
uploadFile_status(manager, answer) ==
    IF manager
    THEN IF answer.status = "FAILED"
         THEN [outcome |-> "Error", err |-> "failed to upload",
               message |-> answer.message]
         ELSE IF answer.status # "COMPLETED"
         THEN [outcome |-> "Error", err |-> "unexpected state", message |-> ""]
         ELSE [outcome |-> "ok", err |-> "", message |-> ""]
    ELSE IF answer.status # "OK"
         THEN [outcome |-> "S3Error", err |-> answer.status, message |-> ""]
         ELSE [outcome |-> "ok", err |-> "", message |-> ""]

\* Statistics that count an upload however it ended.
uploadFile_counted_always(outcome) == TRUE

\* l.546-548 are reached when nothing was thrown before them.
uploadFile_counted(outcome) == outcome = "ok"

\* l.496-548, from the test of transferManager on: the request sent, if any,
\* and how the call ends.
uploadFile_transfer(manager, contentEncoding, answer) ==
    IF uploadFile_conflict(manager, contentEncoding)
    THEN [request |-> "none", outcome |-> "Error",
          err |-> "content encoding with multi-part", message |-> ""]
    ELSE LET end == uploadFile_status(manager, answer)
         IN  [request |-> IF manager THEN "upload" ELSE "put",
              outcome |-> end.outcome, err |-> end.err, message |-> end.message]

\* The effect of one uploadFile call on the store, the transport and the
\* statistics (l.546-548 are reached on success only); uploads records it.
uploadFile_effect(manager, path, n, answer) ==
    LET plan == upsertFile_plan(cfg, path, Payload(n))
        size == Len(plan.body)
        end == uploadFile_transfer(manager, plan.contentEncoding, answer)
        stored == [present |-> TRUE, body |-> plan.body,
                   enc |-> IF manager THEN "" ELSE plan.contentEncoding]
    IN  /\ answer \in UploadAnswers(manager)
        /\ net' = CASE end.request = "upload" -> [net EXCEPT !.upload = @ + 1]
                    [] end.request = "put" -> [net EXCEPT !.put = @ + 1]
                    [] OTHER -> net
        /\ remote' = IF end.outcome = "ok"
                      THEN [remote EXCEPT ![path] = stored] ELSE remote
        /\ stats' = IF uploadFile_counted(end.outcome)
                     THEN [stats EXCEPT !.put = @ + 1,
                                        !.putBytes = @ + Max(size, 0)]
                     ELSE stats
        /\ result' = [name |-> "upsertFile", outcome |-> end.outcome,
                      err |-> end.err]
        /\ given' = [key |-> path, data |-> Payload(n)]
        /\ uploads' = Append(uploads,
               [key |-> path, data |-> Payload(n), body |-> plan.body,
                size |-> size, engine |-> manager,
                contentEncoding |-> plan.contentEncoding,
                status |-> answer.status, lastError |-> answer.message,
                outcome |-> end.outcome, err |-> end.err,
                message |-> end.message])

\* upsertFile and the uploadFile it calls (l.457-569), while no other thread
\* uploads: one step of the calling thread.
upsertFile(path, n, answer) ==
    LET manager == call_once_transferManager(transferManagerCreated,
                                             transferManager, cfg)
    IN  /\ pc = "idle"
        /\ \A t \in Threads : callers[t].pc = "idle"
        /\ transferManagerCreated' = TRUE
        /\ transferManager' = manager
        /\ engines' = engines + (IF call_once_active(transferManagerCreated)
                                 THEN TransferManager_Create(cfg) ELSE 0)
        /\ uploadFile_effect(manager, path, n, answer)
        /\ op' = NoOp
        /\ UNCHANGED <<cfg, pc, callers>>
        /\ UNCHANGED fetchVars
        /\ UNCHANGED listVars
    /\ UNCHANGED res

\* Thread t calls upsertFile, which hands its plan to uploadFile (l.457-469).
uploadFile_enter(t, path, n) ==
    /\ pc = "idle"
    /\ callers[t].pc = "idle"
    /\ callers' = [callers EXCEPT ![t] = [pc |-> "once", key |-> path, n |-> n]]
    /\ UNCHANGED storeVars
    /\ UNCHANGED <<pc, op, result, given, uploads, engines>>
    /\ UNCHANGED fetchVars
    /\ UNCHANGED listVars
    /\ UNCHANGED res

\* l.471-494: thread t passes std::call_once.
uploadFile_call_once(t) ==
    /\ callers[t].pc = "once"
    /\ transferManagerCreated' = TRUE
    /\ transferManager' = call_once_transferManager(transferManagerCreated,
                                                    transferManager, cfg)
    /\ engines' = engines + (IF call_once_active(transferManagerCreated)
                             THEN TransferManager_Create(cfg) ELSE 0)
    /\ callers' = [callers EXCEPT ![t].pc = "transfer"]
    /\ UNCHANGED <<cfg, remote, stats, net, pc, op, result, given, uploads>>
    /\ UNCHANGED fetchVars
    /\ UNCHANGED listVars
    /\ UNCHANGED res

\* l.496-548: thread t reads transferManager, uploads and returns or throws.
uploadFile_finish(t, answer) ==
    /\ callers[t].pc = "transfer"
    /\ uploadFile_effect(transferManager, callers[t].key, callers[t].n, answer)
    /\ callers' = [callers EXCEPT ![t].pc = "done"]
    /\ UNCHANGED <<cfg, transferManager, transferManagerCreated, pc, op, engines>>
    /\ UNCHANGED fetchVars
    /\ UNCHANGED listVars
    /\ UNCHANGED res

(* -------------------------------------------------------- chunked fetch *)

\* The window of one getObject call, as start_downloads reads and writes it.
Window ==
    [object_size |-> object_size, next_chunk_offset |-> next_chunk_offset,
     handles |-> handles, transfers |-> transfers, chunks |-> chunks]

\* l.274: std::make_unique<Chunk>(): the chunk is owned by a unique_ptr, and
\* by nothing else until l.280 moves that unique_ptr into the transfers map.
make_unique_Chunk(offset, length, accounted) ==
    [offset |-> offset, requested |-> length, accounted |-> accounted,
     owner |-> "unique_ptr", status |-> "IN_PROGRESS", promise |-> "pending",
     called |-> FALSE]

\* l.276: the length handed to DownloadFile for the range at next_chunk_offset.
DownloadFile_length(download_size) == chunk_size

\* A scheduling step that only stops at the end of the object.
start_downloads_guard_unbounded(w) ==
    w.next_chunk_offset < w.object_size

\* l.272: the three bounds of the scheduling step.
start_downloads_guard(w) ==
    /\ w.next_chunk_offset < w.object_size
    /\ Cardinality(w.transfers) < max_transfers
    /\ Len(w.chunks) < max_chunks

\* start_downloads (l.271-282).
RECURSIVE start_downloads(_)
start_downloads(w) ==
    IF start_downloads_guard(w)
    THEN LET download_size == Min(chunk_size, w.object_size - w.next_chunk_offset)
             handle == Len(w.handles) + 1
             chunk == make_unique_Chunk(w.next_chunk_offset,
                                        DownloadFile_length(download_size),
                                        download_size)
         IN  start_downloads(
                 [w EXCEPT !.next_chunk_offset = @ + download_size,
                           !.handles = Append(@, chunk),
                           !.chunks = Append(@, handle),
                           !.transfers = @ \cup {handle}])
    ELSE w

SetWindow(w) ==
    /\ next_chunk_offset' = w.next_chunk_offset
    /\ handles' = w.handles
    /\ transfers' = w.transfers
    /\ chunks' = w.chunks

\* The bytes a range request [offset, offset + length) of the object yields:
\* the store cuts a range that runs past the end of the object.
RangeBytes(body, offset, length) ==
    SubSeq(body, offset + 1, Min(offset + length, Len(body)))

\* The calling thread is inside getObject, so its locals are alive.
InGetObject == pc \in {"start", "loop", "lock", "get"}

\* getFile (l.571-576) and isValidPathUncached (l.422-425, through
\* queryPathInfo): count the GET and enter getObject.
StartFetch(name, key) ==
    /\ pc = "idle"
    /\ result.name \in {"none", "upsertFile"}
    /\ op' = [name |-> name, key |-> key]
    /\ stats' = [stats EXCEPT !.get = @ + 1]
    /\ pc' = "probe"
    /\ UNCHANGED <<cfg, remote, net, transferManager, transferManagerCreated,
                   result, given>>
    /\ UNCHANGED fetchVars
    /\ UNCHANGED listVars
    /\ UNCHANGED res
    /\ UNCHANGED uploadVars

\* What HeadObject can answer for an object: its length, or an error.
HeadAnswers(object) ==
    IF object.present THEN {"OK", "ACCESS_DENIED", "NETWORK_CONNECTION"}
    ELSE {"NO_SUCH_KEY", "ACCESS_DENIED", "NETWORK_CONNECTION"}

\* A check that takes every outcome for a success.
checkAws_never_throws(answer) == [thrown |-> FALSE, err |-> ""]

\* checkAws (l.48-56): a failed outcome is thrown as an S3Error that carries
\* the error type.
checkAws(answer) ==
    IF answer # "OK" THEN [thrown |-> TRUE, err |-> answer]
    ELSE [thrown |-> FALSE, err |-> ""]

\* getObjectSize (l.342-348), called at l.235: checkAws throws an S3Error
\* for every failed outcome.
getObjectSize(answer) ==
    /\ pc = "probe"
    /\ answer \in HeadAnswers(remote[op.key])
    /\ net' = [net EXCEPT !.head = @ + 1]
    /\ IF ~checkAws(answer).thrown
       THEN /\ object_size' = Len(remote[op.key].body)
            /\ pc' = "start"
            /\ UNCHANGED result
       ELSE /\ pc' = "raised"
            /\ result' = [name |-> "getObject", outcome |-> "S3Error",
                          err |-> checkAws(answer).err]
            /\ UNCHANGED object_size
    /\ UNCHANGED <<cfg, remote, stats, transferManager, transferManagerCreated,
                   op, given>>
    /\ UNCHANGED <<next_chunk_offset, handles, transfers, chunks, m, sunk, escaped>>
    /\ UNCHANGED callbackVars
    /\ UNCHANGED listVars
    /\ UNCHANGED res
    /\ UNCHANGED uploadVars

\* l.284-287: the first scheduling step, under the lock.
InitialSchedule ==
    /\ pc = "start"
    /\ m = "free"
    /\ SetWindow(start_downloads(Window))
    /\ pc' = "loop"
    /\ UNCHANGED storeVars
    /\ UNCHANGED <<op, result, given, object_size, m, sunk, escaped>>
    /\ UNCHANGED callbackVars
    /\ UNCHANGED listVars
    /\ UNCHANGED res
    /\ UNCHANGED uploadVars

\* l.289: the loop test, read without the lock.
LoopTest ==
    /\ pc = "loop"
    /\ pc' = IF chunks = <<>> THEN "returned" ELSE "lock"
    /\ UNCHANGED storeVars
    /\ UNCHANGED <<op, result, given>>
    /\ UNCHANGED fetchVars
    /\ UNCHANGED listVars
    /\ UNCHANGED res
    /\ UNCHANGED uploadVars

\* l.293: std::lock_guard g{m}, taken before the future is waited for.
ConsumerLock ==
    /\ pc = "lock"
    /\ m = "free"
    /\ m' = "consumer"
    /\ pc' = "get"
    /\ UNCHANGED storeVars
    /\ UNCHANGED <<op, result, given, object_size, next_chunk_offset, handles,
                   transfers, chunks, sunk, escaped>>
    /\ UNCHANGED callbackVars
    /\ UNCHANGED listVars
    /\ UNCHANGED res
    /\ UNCHANGED uploadVars

\* A consumer that takes whichever queued future is ready, were it not the
\* oldest one.
ConsumerFuture_resolvedFirst ==
    LET ready == {i \in 1..Len(chunks) : handles[chunks[i]].promise # "pending"}
    IN  IF ready = {} THEN Head(chunks)
        ELSE chunks[CHOOSE i \in ready : \A j \in ready : j <= i]

\* l.294: the future the consumer waits for.
ConsumerFuture == Head(chunks)

\* l.294-301: chunks.front().get() returns once the promise is fulfilled,
\* still under the lock of l.293.  With an exception it rethrows and the
\* fetch ends; with a value the chunk is written to the sink (l.296), the
\* future is popped and the scheduling step runs again (l.298-300).
ConsumerGet ==
    /\ pc = "get"
    /\ m = "consumer"
    /\ handles[ConsumerFuture].promise # "pending"
    /\ m' = "free"
    /\ IF handles[ConsumerFuture].promise = "exception"
       THEN /\ pc' = "raised"
            /\ result' = [name |-> "getObject", outcome |-> "runtime_error",
                          err |-> "Error from AWS"]
            /\ UNCHANGED <<next_chunk_offset, handles, transfers, chunks, sunk>>
       ELSE LET chunk == handles[ConsumerFuture]
            IN  /\ sunk' = Append(sunk,
                        [offset |-> chunk.offset,
                         bytes |-> RangeBytes(remote[op.key].body, chunk.offset,
                                              chunk.requested)])
                /\ SetWindow(start_downloads([Window EXCEPT !.chunks = Tail(@)]))
                /\ pc' = "loop"
                /\ UNCHANGED result
    /\ UNCHANGED storeVars
    /\ UNCHANGED <<op, given, object_size, escaped>>
    /\ UNCHANGED callbackVars
    /\ UNCHANGED listVars
    /\ UNCHANGED res
    /\ UNCHANGED uploadVars

(* --------------------------------------------------- transport workers *)

\* A range transfer reaches a terminal TransferStatus on a worker thread.
TransferFinish(handle, status) ==
    /\ InGetObject
    /\ handle \in 1..Len(handles)
    /\ handles[handle].status = "IN_PROGRESS"
    /\ status \in TerminalStatus
    /\ handles' = [handles EXCEPT ![handle].status = status]
    /\ UNCHANGED storeVars
    /\ UNCHANGED <<pc, op, result, given, object_size, next_chunk_offset,
                   transfers, chunks, m, sunk, escaped>>
    /\ UNCHANGED callbackVars
    /\ UNCHANGED listVars
    /\ UNCHANGED res
    /\ UNCHANGED uploadVars

\* l.102: shared_from_this() of a chunk that no shared_ptr owns throws
\* std::bad_weak_ptr, before promise.set_value is reached.
shared_from_this_throws(chunk) == chunk.owner # "shared_ptr"

\* Chunk::complete (l.99-103).
Chunk_complete(chunk) ==
    IF shared_from_this_throws(chunk) THEN chunk
    ELSE [chunk EXCEPT !.promise = "value"]

\* A failed transfer that fulfils its promise like a complete one.
Chunk_fail_as_value(chunk) == [chunk EXCEPT !.promise = "value"]

\* l.260: promise.set_exception.
Chunk_fail(chunk) == [chunk EXCEPT !.promise = "exception"]

\* l.252 and l.262: transfers.erase destroys the map's unique_ptr, and with
\* it the chunk (its promise and its handle) that the unique_ptr owns.
transfers_erase(hs, handle) == [hs EXCEPT ![handle].owner = "destroyed"]

\* A map that reports every handle as present.
transfers_missing_never(handle) == FALSE

\* l.251 and l.260: transfers[handle.get()] finds no entry for the handle, so
\* operator[] makes one that holds a null unique_ptr.
transfers_missing(handle) == handle \notin transfers

\* What dereferencing the null unique_ptr (-> at l.251 and l.260) can do:
\* end the process, or pass unnoticed.
NullDereference == {"crash", "continue"}

\* A callback that does not wait for the mutex.
callback_lock_guard_absent == TRUE

\* l.243: std::lock_guard g{m} returns once no other thread holds m; the
\* guard releases m when the callback is left, by return or by exception.
callback_lock_guard == m = "free"

\* downloadProgressCallback (l.241-267), on a worker thread, all of it under
\* the lock of l.243.  The transport invokes it for every progress event of
\* a transfer, so more than one invocation can find the same terminal
\* status; recalls counts the invocations after the first that did.  The
\* exception of l.251 leaves the callback for the transport's worker thread
\* (the lock_guard is unwound); escaped counts these.
downloadProgressCallback(handle) ==
    /\ InGetObject
    /\ callback_lock_guard
    /\ handle \in 1..Len(handles)
    /\ LET chunk == handles[handle]
           noted == [handles EXCEPT ![handle].called = TRUE]
       IN  CASE chunk.status = "IN_PROGRESS" ->
                 \* l.247-249, then l.266
                 /\ SetWindow(start_downloads(Window))
                 /\ UNCHANGED <<pc, escaped, recalls, missing>>
             [] chunk.status # "IN_PROGRESS" /\ transfers_missing(handle) ->
                 \* l.251 or l.260 with a null unique_ptr
                 /\ recalls < MaxRecalls
                 /\ recalls' = recalls + 1
                 /\ missing' = missing + 1
                 /\ \E outcome \in NullDereference :
                        IF outcome = "crash"
                        THEN /\ pc' = "crashed"
                             /\ UNCHANGED <<next_chunk_offset, handles,
                                            transfers, chunks>>
                        ELSE /\ SetWindow(start_downloads(Window))
                             /\ UNCHANGED pc
                 /\ UNCHANGED escaped
             [] OTHER ->
                 /\ chunk.called => recalls < MaxRecalls
                 /\ recalls' = IF chunk.called THEN recalls + 1 ELSE recalls
                 /\ UNCHANGED <<pc, missing>>
                 /\ CASE chunk.status = "COMPLETED"
                             /\ shared_from_this_throws(chunk) ->
                          \* l.251 throws: l.252 and l.266 are not reached
                          /\ handles' = noted
                          /\ escaped' = escaped + 1
                          /\ UNCHANGED <<next_chunk_offset, transfers, chunks>>
                      [] chunk.status = "COMPLETED"
                             /\ ~shared_from_this_throws(chunk) ->
                          \* l.251-252, then l.266
                          /\ SetWindow(start_downloads(
                                 [Window EXCEPT
                                     !.handles = transfers_erase(
                                         [noted EXCEPT ![handle] = Chunk_complete(@)],
                                         handle),
                                     !.transfers = @ \ {handle}]))
                          /\ UNCHANGED escaped
                      [] OTHER ->
                          \* l.254-264, then l.266
                          /\ SetWindow(start_downloads(
                                 [Window EXCEPT
                                     !.handles = transfers_erase(
                                         [noted EXCEPT ![handle] = Chunk_fail(@)],
                                         handle),
                                     !.transfers = @ \ {handle}]))
                          /\ UNCHANGED escaped
    /\ UNCHANGED storeVars
    /\ UNCHANGED <<op, result, given, object_size, m, sunk>>
    /\ UNCHANGED listVars
    /\ UNCHANGED res
    /\ UNCHANGED uploadVars

(* ------------------------------------------------- the end of a fetch *)

\* l.332-339: the FileTransferResult of getObject(bucket, key, sink): data
\* stays unset, data_size is the object's size.
getObject_result(size) == [data |-> FALSE, data_size |-> size]

\* BinaryCacheStore::queryPathInfo, as isValidPathUncached (l.424-429) uses
\* it: a missing .narinfo is an InvalidPath, any other failure is passed on.
queryPathInfo(outcome) ==
    IF outcome = "ok" THEN "PathInfo"
    ELSE IF outcome = "NoSuchBinaryCacheFile" THEN "InvalidPath"
    ELSE outcome

\* isValidPathUncached (l.422-430).
isValidPathUncached(outcome) ==
    IF queryPathInfo(outcome) = "PathInfo" THEN "true"
    ELSE IF queryPathInfo(outcome) = "InvalidPath" THEN "false"
    ELSE queryPathInfo(outcome)

\* How the store operation ends, given how getFile ended.
OpResult(outcome, err) ==
    IF op.name = "isValid"
    THEN [name |-> "isValid", outcome |-> isValidPathUncached(outcome), err |-> err]
    ELSE [name |-> "getFile", outcome |-> outcome, err |-> err]

\* getObject returns (l.332-339) and getFile goes on (l.578-586).
FinishReturned ==
    /\ pc = "returned"
    /\ LET sinkRes == getObject_result(object_size)
       IN  /\ stats' = [stats EXCEPT
                           !.getBytes = @ + (IF sinkRes.data THEN sinkRes.data_size ELSE 0)]
           /\ result' = IF sinkRes.data THEN OpResult("ok", "")
                        ELSE OpResult("NoSuchBinaryCacheFile", "")
    /\ pc' = "idle"
    /\ UNCHANGED <<cfg, remote, net, transferManager, transferManagerCreated,
                   op, given>>
    /\ UNCHANGED fetchVars
    /\ UNCHANGED listVars
    /\ UNCHANGED res
    /\ UNCHANGED uploadVars

\* An exception leaves getObject and getFile (neither catches).
FinishRaised ==
    /\ pc = "raised"
    /\ result' = OpResult(result.outcome, result.err)
    /\ pc' = "idle"
    /\ UNCHANGED storeVars
    /\ UNCHANGED <<op, given>>
    /\ UNCHANGED fetchVars
    /\ UNCHANGED listVars
    /\ UNCHANGED res
    /\ UNCHANGED uploadVars

(* ------------------------------------------- single-request operations *)

\* l.197-200: the S3Errors that getObject(bucketName, key) swallows.
getObject_swallows(err) ==
    ~((err # "NO_SUCH_KEY") /\ (err # "ACCESS_DENIED"))

\* S3Helper::getObject(bucketName, key) (l.171-207): one GetObject request
\* for the whole object; the body is decompressed by its Content-Encoding.
getObject(key, answer) ==
    LET object == remote[key]
        outcome == checkAws(answer)
    IN  /\ pc = "idle"
        /\ result.name \in {"none", "upsertFile"}
        /\ answer \in HeadAnswers(object)
        /\ op' = [name |-> "getObject", key |-> key]
        /\ net' = [net EXCEPT !.get = @ + 1]
        /\ IF ~outcome.thrown
           THEN /\ res' = [set |-> TRUE, data |-> decompress(object.enc, object.body)]
                /\ result' = [name |-> "getObject", outcome |-> "ok", err |-> ""]
           ELSE /\ res' = NoData
                /\ result' = [name |-> "getObject",
                              outcome |-> IF getObject_swallows(outcome.err)
                                          THEN "absent" ELSE "S3Error",
                              err |-> outcome.err]
        /\ UNCHANGED <<cfg, remote, stats, transferManager, transferManagerCreated,
                       pc, given>>
        /\ UNCHANGED fetchVars
        /\ UNCHANGED listVars
        /\ UNCHANGED uploadVars

\* l.441-449: what fileExists makes of HeadObject's outcome.
fileExists_result(answer) ==
    IF answer # "OK"
    THEN IF answer \in {"RESOURCE_NOT_FOUND", "NO_SUCH_KEY", "ACCESS_DENIED"}
         THEN "false" ELSE "Error"
    ELSE "true"

\* fileExists (l.432-452).
fileExists(key, answer) ==
    /\ pc = "idle"
    /\ result.name \in {"none", "upsertFile"}
    /\ answer \in HeadAnswers(remote[key])
    /\ op' = [name |-> "fileExists", key |-> key]
    /\ stats' = [stats EXCEPT !.head = @ + 1]
    /\ net' = [net EXCEPT !.head = @ + 1]
    /\ result' = [name |-> "fileExists", outcome |-> fileExists_result(answer),
                  err |-> IF answer = "OK" THEN "" ELSE answer]
    /\ UNCHANGED <<cfg, remote, transferManager, transferManagerCreated, pc, given>>
    /\ UNCHANGED fetchVars
    /\ UNCHANGED listVars
    /\ UNCHANGED uploadVars
    /\ UNCHANGED res

(* --------------------------------------------------------------- listing *)

DefaultConfig ==
    [multipartUpload |-> FALSE, narinfoCompression |-> "",
     lsCompression |-> "", logCompression |-> ""]

\* A filter that looks at the suffix and not at the length.
queryAllValidPaths_qualifies_suffixOnly(key) ==
    Len(key) >= 8 /\ hasSuffix(key, NarinfoSuffix)

\* l.611: the keys of a page that are taken for .narinfo files.
queryAllValidPaths_qualifies(key) ==
    ~(Len(key) # 40 \/ ~hasSuffix(key, NarinfoSuffix))

\* l.612: the store path of a qualifying key: the key without its last 8
\* characters is the hash part, MissingName ("x") the name.
queryAllValidPaths_path(key) ==
    [hashPart |-> SubSeq(key, 1, Len(key) - 8), name |-> "x"]

\* A loop that ends after its first page.
queryAllValidPaths_continue_never(nextMarker) == FALSE

\* l.616: the loop goes on while the marker is not empty.
queryAllValidPaths_continue(nextMarker) == nextMarker # <<>>

\* l.591-592: queryAllValidPaths starts.
StartList ==
    /\ pc = "idle"
    /\ result = NoResult
    /\ op' = [name |-> "queryAllValidPaths", key |-> <<>>]
    /\ marker' = <<>>
    /\ paths' = {}
    /\ pc' = "list"
    /\ UNCHANGED storeVars
    /\ UNCHANGED <<result, given, listed, seen, returned>>
    /\ UNCHANGED fetchVars
    /\ UNCHANGED uploadVars
    /\ UNCHANGED res

\* One turn of the loop (l.594-616) when ListObjects succeeds with a page of
\* keys and a next marker.
ListPage(contents, nextMarker) ==
    /\ pc = "list"
    /\ Len(listed) < MaxPages
    /\ net' = [net EXCEPT !.list = @ + 1]
    /\ listed' = Append(listed, [marker |-> marker, ok |-> TRUE,
                                 next |-> nextMarker])
    /\ seen' = seen \cup contents
    /\ paths' = paths \cup
           {queryAllValidPaths_path(key) :
               key \in {k \in contents : queryAllValidPaths_qualifies(k)}}
    /\ marker' = nextMarker
    /\ IF queryAllValidPaths_continue(nextMarker)
       THEN /\ pc' = "list"
            /\ UNCHANGED <<result, returned>>
       ELSE /\ pc' = "idle"
            /\ result' = [name |-> "queryAllValidPaths", outcome |-> "ok", err |-> ""]
            /\ returned' = [set |-> TRUE, paths |-> paths']
    /\ UNCHANGED <<cfg, remote, stats, transferManager, transferManagerCreated,
                   op, given>>
    /\ UNCHANGED fetchVars
    /\ UNCHANGED uploadVars
    /\ UNCHANGED res

\* One turn of the loop when ListObjects fails: checkAws (l.597) throws.
ListFails(err) ==
    /\ pc = "list"
    /\ Len(listed) < MaxPages
    /\ net' = [net EXCEPT !.list = @ + 1]
    /\ listed' = Append(listed, [marker |-> marker, ok |-> FALSE,
                                 next |-> <<>>])
    /\ pc' = "idle"
    /\ result' = [name |-> "queryAllValidPaths", outcome |-> "S3Error", err |-> err]
    /\ UNCHANGED <<cfg, remote, stats, transferManager, transferManagerCreated,
                   op, given>>
    /\ UNCHANGED <<marker, paths, seen, returned>>
    /\ UNCHANGED fetchVars
    /\ UNCHANGED uploadVars
    /\ UNCHANGED res

(* ------------------------------------------------------ specification *)

\* The steps of a fetch once it has started.
FetchSteps ==
    \/ \E answer \in {"OK"} \cup S3Errors : getObjectSize(answer)
    \/ InitialSchedule
    \/ LoopTest
    \/ ConsumerLock
    \/ ConsumerGet
    \/ \E handle \in 1..Len(handles), status \in TerminalStatus :
           TransferFinish(handle, status)
    \/ \E handle \in 1..Len(handles) : downloadProgressCallback(handle)
    \/ FinishReturned
    \/ FinishRaised

\* A session of one store: at most one upsertFile, then at most one getFile
\* (of any key), isValidPathUncached (which fetches a .narinfo), whole-object
\* getObject or fileExists.
Next ==
    \/ \E path \in Keys, n \in 0..MaxPayload,
          answer \in UploadAnswers(TRUE) \cup UploadAnswers(FALSE) :
           result = NoResult /\ upsertFile(path, n, answer)
    \/ \E key \in Keys : StartFetch("getFile", key)
    \/ StartFetch("isValid", KeyNarinfo)
    \/ FetchSteps
    \/ \E key \in Keys, answer \in {"OK"} \cup S3Errors : getObject(key, answer)
    \/ \E key \in Keys, answer \in {"OK"} \cup S3Errors : fileExists(key, answer)

Spec == Init /\ [][Next]_vars

\* A fetch of an object that the bucket already holds, of any size up to
\* MaxObject.
InitObject ==
    /\ cfg = DefaultConfig
    /\ \E n \in 0..MaxObject :
           remote = [k \in Keys |->
                        IF k = KeyNar
                        THEN [present |-> TRUE, body |-> Payload(n), enc |-> ""]
                        ELSE Absent]
    /\ stats = [put |-> 0, putBytes |-> 0, get |-> 0, getBytes |-> 0, head |-> 0]
    /\ net = [head |-> 0, get |-> 0, put |-> 0, upload |-> 0, list |-> 0]
    /\ transferManager = FALSE
    /\ transferManagerCreated = FALSE
    /\ pc = "idle"
    /\ op = NoOp
    /\ result = NoResult
    /\ given = [key |-> <<>>, data |-> <<>>]
    /\ InitFetch
    /\ InitList
    /\ InitUpload
    /\ res = NoData

NextFetch ==
    \/ StartFetch("getFile", KeyNar)
    \/ FetchSteps

SpecFetch == InitObject /\ [][NextFetch]_vars

\* A listing of a bucket, whose pages are the bucket's to choose.
InitListing ==
    /\ cfg = DefaultConfig
    /\ remote = [k \in Keys |-> Absent]
    /\ stats = [put |-> 0, putBytes |-> 0, get |-> 0, getBytes |-> 0, head |-> 0]
    /\ net = [head |-> 0, get |-> 0, put |-> 0, upload |-> 0, list |-> 0]
    /\ transferManager = FALSE
    /\ transferManagerCreated = FALSE
    /\ pc = "idle"
    /\ op = NoOp
    /\ result = NoResult
    /\ given = [key |-> <<>>, data |-> <<>>]
    /\ InitFetch
    /\ InitList
    /\ InitUpload
    /\ res = NoData

NextList ==
    \/ StartList
    \/ \E contents \in SUBSET ListKeys, nextMarker \in Markers :
           ListPage(contents, nextMarker)
    \/ \E err \in S3Errors : ListFails(err)

SpecList == InitListing /\ [][NextList]_vars

\* One store instance with or without the engine and with or without a codec
\* for logs, before its first upload.
InitUploading ==
    /\ cfg \in {c \in Configs : c.narinfoCompression = "" /\ c.lsCompression = ""}
    /\ remote = [k \in Keys |-> Absent]
    /\ stats = [put |-> 0, putBytes |-> 0, get |-> 0, getBytes |-> 0, head |-> 0]
    /\ net = [head |-> 0, get |-> 0, put |-> 0, upload |-> 0, list |-> 0]
    /\ transferManager = FALSE
    /\ transferManagerCreated = FALSE
    /\ pc = "idle"
    /\ op = NoOp
    /\ result = NoResult
    /\ given = [key |-> <<>>, data |-> <<>>]
    /\ InitFetch
    /\ InitList
    /\ InitUpload
    /\ res = NoData

\* Uploads of one store instance, one after the other.
NextUpload ==
    \E path \in {KeyLog, KeyNar, KeyLogNarinfo}, n \in 0..MaxPayload,
       answer \in UploadAnswers(TRUE) \cup UploadAnswers(FALSE) :
        Len(uploads) < MaxUploads /\ upsertFile(path, n, answer)

SpecUpload == InitUploading /\ [][NextUpload]_vars

\* Uploads of one store instance by several threads at once, one upload of
\* one byte each.
NextConcurrent ==
    \/ \E t \in Threads, path \in {KeyLog, KeyNar} :
           uploadFile_enter(t, path, 1)
    \/ \E t \in Threads : uploadFile_call_once(t)
    \/ \E t \in Threads, answer \in UploadAnswers(TRUE) \cup UploadAnswers(FALSE) :
           uploadFile_finish(t, answer)

SpecConcurrent == InitUploading /\ [][NextConcurrent]_vars

(* ---------------------------------------------------------------- claims *)

RECURSIVE Flatten(_)
Flatten(writes) ==
    IF writes = <<>> THEN <<>> ELSE Head(writes).bytes \o Flatten(Tail(writes))

\* The object the fetch in progress reads.
FetchedBody == remote[op.key].body

\* The size probe of the fetch succeeded.
ProbeSucceeded ==
    /\ op.name \in {"getFile", "isValid"}
    /\ pc \notin {"idle", "probe"} \/ (pc = "idle" /\ result.name = op.name)
    /\ result.outcome # "S3Error"

\* The consumer waits, mutex in hand, for a promise that only a callback can
\* fulfil, and a callback starts by taking the mutex: it waits for ever.
ConsumerStuck ==
    /\ pc = "get"
    /\ handles[Head(chunks)].promise = "pending"

\* The fetch takes no further step: its operation ended, or the consumer is
\* stuck with every transfer finished.
FetchStopped ==
    \/ pc = "idle" /\ result.name = op.name /\ op.name \in {"getFile", "isValid"}
    \/ ConsumerStuck /\ \A h \in 1..Len(handles) : handles[h].status # "IN_PROGRESS"

AllTransfersCompleted ==
    \A h \in 1..Len(handles) : handles[h].status = "COMPLETED"

C2_DeliversWholeObject ==
    (FetchStopped /\ ProbeSucceeded /\ AllTransfersCompleted)
        => /\ Flatten(sunk) = FetchedBody
           /\ \A i \in 1..Len(sunk) :
                  /\ sunk[i].offset = (i - 1) * chunk_size
                  /\ Len(sunk[i].bytes) <= chunk_size
                  /\ i < Len(sunk) => Len(sunk[i].bytes) = chunk_size

\* C3: never more than max_transfers (3) transfers in the transfers map, and
\* never more than max_chunks (5) futures in the queue, so never more than 5
\* chunks finished and not yet delivered.
C3_WindowBounds ==
    /\ Cardinality(transfers) <= max_transfers
    /\ Len(chunks) <= max_chunks
    /\ Cardinality({i \in 1..Len(chunks) : handles[chunks[i]].promise # "pending"})
           <= max_chunks

\* C3's case: both bounds are reached at once.
C3_Witness ==
    /\ Cardinality(transfers) = max_transfers
    /\ Len(chunks) = max_chunks

\* C4: once a transfer has ended in a status other than COMPLETED, the fetch
\* never returns normally (if it has ended, it ended with the exception of
\* the future), and everything written to the sink lies before the failed
\* chunk's offset.
C4_FailedChunkFailsFetch ==
    \A h \in 1..Len(handles) :
        handles[h].status \notin {"IN_PROGRESS", "COMPLETED"}
            => /\ pc # "returned"
               /\ pc = "idle" => result.outcome = "runtime_error"
               /\ \A i \in 1..Len(sunk) :
                      sunk[i].offset + Len(sunk[i].bytes) <= handles[h].offset

\* C4's case: the fetch has failed on a failed chunk while a later chunk's
\* transfer was already complete, and nothing of it was written.
C4_Witness ==
    /\ pc = "idle"
    /\ result.outcome = "runtime_error"
    /\ \E h \in 1..Len(handles) : \E g \in 1..Len(handles) :
           /\ handles[h].status = "FAILED"
           /\ g > h
           /\ handles[g].status = "COMPLETED"
           /\ \A i \in 1..Len(sunk) : sunk[i].offset < handles[h].offset

\* C5: a getFile of an object whose probe and transfers all succeed ends
\* without an error and reports the object's size as bytes fetched.
C5_GetFileReportsSize ==
    (pc = "idle" /\ result.name = "getFile"
        /\ result.outcome \notin {"S3Error", "runtime_error"})
        => /\ result.outcome = "ok"
           /\ stats.getBytes = Len(FetchedBody)

\* C6: with multi-part upload enabled, an upload with a content encoding
\* ends with the configuration error, no UploadFile and no PutObject was
\* issued, nothing was stored and the statistics are as they were.
C6_ConflictBeforeNetwork ==
    (/\ pc = "idle"
     /\ result.name = "upsertFile"
     /\ cfg.multipartUpload
     /\ upsertFile_plan(cfg, given.key, given.data).contentEncoding # "")
        => /\ result.outcome = "Error"
           /\ result.err = "content encoding with multi-part"
           /\ net.upload = 0 /\ net.put = 0 /\ net.head = 0
           /\ ~remote[given.key].present
           /\ stats = [put |-> 0, putBytes |-> 0, get |-> 0, getBytes |-> 0,
                       head |-> 0]

\* C6's case: such an upload was made and refused.
C6_Witness ==
    /\ pc = "idle"
    /\ result.name = "upsertFile"
    /\ result.outcome = "Error"
    /\ cfg.multipartUpload
    /\ given.key = KeyLog
    /\ Len(given.data) = MaxPayload
    /\ upsertFile_plan(cfg, given.key, given.data).contentEncoding = "xz"
    /\ net.upload = 0 /\ net.put = 0

\* C7: a payload stored under a key whose category has a codec, then fetched
\* with getFile: once the fetch has stopped with the probe and every transfer
\* successful, the sink holds the original payload.
C7_RoundTrip ==
    (/\ FetchStopped
     /\ op.name = "getFile"
     /\ op.key = given.key
     /\ remote[given.key].present
     /\ upsertFile_plan(cfg, given.key, given.data).contentEncoding # ""
     /\ ProbeSucceeded
     /\ AllTransfersCompleted)
        => Flatten(sunk) = given.data

\* C8: isValidPathUncached is false when the fetch of the .narinfo fails as
\* not found or access denied, true when the fetch succeeds, and passes every
\* other failure on.
C8_IsValid ==
    (pc = "idle" /\ result.name = "isValid")
        => IF result.err \in {"NO_SUCH_KEY", "ACCESS_DENIED"}
           THEN result.outcome = "false"
           ELSE IF result.err = ""
           THEN result.outcome = "true"
           ELSE result.outcome \notin {"true", "false"}

\* C9 as the claim has it: a key contributes if and only if it has 40
\* characters plus the 8 of ".narinfo" and ends in ".narinfo"; its hash part
\* is the key without the suffix, 40 characters.
C9_Original ==
    /\ paths = {[hashPart |-> SubSeq(k, 1, 40), name |-> "x"] :
                   k \in {k \in seen : Len(k) = 40 + Len(NarinfoSuffix)
                                        /\ hasSuffix(k, NarinfoSuffix)}}
    /\ \A p \in paths : Len(p.hashPart) = 40

\* C9, amended: a key contributes if and only if it has 40 characters in all
\* and ends in ".narinfo"; its hash part is the key without the suffix, 32
\* characters.
C9_KeyFilter ==
    /\ paths = {[hashPart |-> SubSeq(k, 1, 32), name |-> "x"] :
                   k \in {k \in seen : Len(k) = 40 /\ hasSuffix(k, NarinfoSuffix)}}
    /\ \A p \in paths :
           /\ Len(p.hashPart) = 32
           /\ (p.hashPart \o NarinfoSuffix) \in seen

\* C9's case: a listing that met a 40-character .narinfo, a 48-character
\* .narinfo and a 40-character key that is no .narinfo has returned.
C9_Witness ==
    /\ returned.set
    /\ {Hash32a \o NarinfoSuffix, Hash40 \o NarinfoSuffix, Hash40} \subseteq seen
    /\ (Hash32b \o NarinfoSuffix) \notin seen
    /\ returned.paths = {[hashPart |-> Hash32a, name |-> "x"]}

\* C10: the first LIST carries the empty marker, each further one the next
\* marker of the page before, which was not empty; the listing returns after
\* the first page whose next marker is empty, with the paths of the
\* qualifying keys of all the pages; if a LIST fails, the listing fails and
\* returns nothing.
C10_Pagination ==
    /\ net.list = Len(listed)
    /\ Len(listed) >= 1 => listed[1].marker = <<>>
    /\ \A i \in 2..Len(listed) :
           /\ listed[i - 1].ok
           /\ listed[i - 1].next # <<>>
           /\ listed[i].marker = listed[i - 1].next
    /\ returned.set
           => /\ Len(listed) >= 1
              /\ listed[Len(listed)].ok
              /\ listed[Len(listed)].next = <<>>
              /\ pc = "idle" /\ result.outcome = "ok"
              /\ returned.paths =
                     {[hashPart |-> SubSeq(k, 1, Len(k) - 8), name |-> "x"] :
                         k \in {k \in seen : Len(k) = 40
                                              /\ hasSuffix(k, NarinfoSuffix)}}
    /\ (Len(listed) >= 1 /\ ~listed[Len(listed)].ok)
           => /\ ~returned.set
              /\ pc = "idle" /\ result.outcome = "S3Error"
    /\ (pc = "idle" /\ result.name = "queryAllValidPaths" /\ result.outcome = "ok")
           => returned.set

\* C10's case: a listing of three pages has returned the paths of two keys.
C10_Witness ==
    /\ returned.set
    /\ Len(listed) = 3
    /\ listed[2].marker = <<"m", "1">>
    /\ listed[3].marker = <<"m", "2">>
    /\ Cardinality(returned.paths) = 2

\* C10's other case: the third LIST failed after two pages with keys.
C10_WitnessFailure ==
    /\ Len(listed) = 3
    /\ ~listed[3].ok
    /\ paths # {}
    /\ ~returned.set

\* The uploads of the history that went through the engine and reached it
\* (no content encoding stood in the way).
EngineUploads ==
    {i \in 1..Len(uploads) : uploads[i].engine /\ uploads[i].contentEncoding = ""}

\* C11: on the multi-part path the upload ends as the engine's terminal
\* status says: COMPLETED is success; FAILED is an error that carries the
\* engine's last error message; every other status is an error of its own
\* kind (unexpected state); nothing but COMPLETED is success.
C11_TerminalStatus ==
    \A i \in EngineUploads :
        LET u == uploads[i]
        IN  /\ u.status = "COMPLETED" => u.outcome = "ok"
            /\ u.status = "FAILED"
                   => /\ u.outcome = "Error"
                      /\ u.err = "failed to upload"
                      /\ u.message = u.lastError
            /\ u.status \notin {"COMPLETED", "FAILED"}
                   => /\ u.outcome = "Error"
                      /\ u.err = "unexpected state"
            /\ u.outcome = "ok" => u.status = "COMPLETED"

\* C11's case: one upload through the engine failed with the engine's
\* message, and the next one ended in a status that is neither.
C11_Witness ==
    /\ Len(uploads) = 2
    /\ EngineUploads = {1, 2}
    /\ uploads[1].status = "FAILED" /\ uploads[1].message = "timeout"
    /\ uploads[2].status = "CANCELED" /\ uploads[2].err = "unexpected state"

RECURSIVE SumOfSizes(_)
SumOfSizes(us) ==
    IF us = <<>> THEN 0
    ELSE (IF Head(us).outcome = "ok" THEN Max(Head(us).size, 0) ELSE 0)
             + SumOfSizes(Tail(us))

\* C12: after any sequence of uploads, made one at a time, stats.put is the
\* number of uploads that succeeded and stats.putBytes the sum of their
\* sizes; an upload that failed changed neither.
C12_PutStatistics ==
    /\ stats.put = Cardinality({i \in 1..Len(uploads) : uploads[i].outcome = "ok"})
    /\ stats.putBytes = SumOfSizes(uploads)

\* C12's case: a failed upload between two successful ones, or after one.
C12_Witness ==
    /\ Len(uploads) = MaxUploads
    /\ uploads[1].outcome = "ok" /\ uploads[1].size > 0
    /\ uploads[MaxUploads].outcome # "ok" /\ uploads[MaxUploads].size > 0
    /\ stats.put = Cardinality({i \in 1..Len(uploads) : uploads[i].outcome = "ok"})
    /\ stats.putBytes > 0

\* C13: however the first uploads of several threads interleave, the engine
\* is created once if multi-part upload is enabled and never if it is not,
\* every thread past call_once finds the flag set, and every upload goes the
\* way the setting says: through that one engine, or through PutObject.
C13_OneEngine ==
    /\ engines <= 1
    /\ transferManager <=> engines = 1
    /\ transferManagerCreated
           => engines = (IF cfg.multipartUpload THEN 1 ELSE 0)
    /\ \A t \in Threads :
           callers[t].pc \in {"transfer", "done"} => transferManagerCreated
    /\ \A i \in 1..Len(uploads) : uploads[i].engine = cfg.multipartUpload
    /\ ~cfg.multipartUpload => net.upload = 0
    /\ cfg.multipartUpload => net.put = 0

\* C13's case: every thread is inside uploadFile at once and past call_once,
\* none has uploaded yet, and there is one engine.
C13_Witness ==
    /\ cfg.multipartUpload
    /\ \A t \in Threads : callers[t].pc = "transfer"
    /\ uploads = <<>>
    /\ transferManager
    /\ engines = 1

\* C13's other case: with multi-part upload disabled every thread has
\* uploaded with PutObject and no engine exists.
C13_WitnessPut ==
    /\ ~cfg.multipartUpload
    /\ \A t \in Threads : callers[t].pc = "done"
    /\ net.put = MaxThreads
    /\ engines = 0

\* The operation of the session has ended on a NO_SUCH_KEY or ACCESS_DENIED
\* outcome of one of its requests.
EndedOnSoftError ==
    /\ pc = "idle"
    /\ result.name \in {"isValid", "getFile", "getObject", "fileExists", "upsertFile"}
    /\ result.err \in {"NO_SUCH_KEY", "ACCESS_DENIED"}

\* C14: a NO_SUCH_KEY or ACCESS_DENIED outcome becomes an absent or false
\* result in isValidPathUncached and in the whole-object getObject, and in
\* those two only: in every other operation (the chunked fetch with its size
\* probe, the upload, the existence probe) it ends the operation as an error.
C14_SoftErrorSites ==
    EndedOnSoftError
        => IF result.name \in {"isValid", "getObject"}
           THEN result.outcome \in {"false", "absent"}
           ELSE result.outcome \in {"S3Error", "Error"}

\* C15: no state in which the consumer, holding the mutex m, waits for the
\* oldest chunk's future while that future's promise is still pending: from
\* such a state the callback that would fulfil it cannot take m, so the fetch
\* would never end.
C15_NoDeadlock ==
    ~(/\ pc = "get"
      /\ m = "consumer"
      /\ handles[Head(chunks)].promise = "pending")

\* C16: every range request asks for min(chunk_size, object_size - offset)
\* bytes, so none asks for bytes at or beyond the object's size.
C16_RequestLength ==
    \A h \in 1..Len(handles) :
        /\ handles[h].requested = Min(chunk_size, object_size - handles[h].offset)
        /\ handles[h].offset + handles[h].requested <= object_size

\* C17: the cursor never passes the object's size; the requests start at 0,
\* each at the offset where the accounted range of the one before ended and
\* so at a higher offset than it; the cursor is the end of the last accounted
\* range; and the requested ranges do not overlap: a range is requested once,
\* whatever became of its chunk.
C17_CursorAdvances ==
    /\ next_chunk_offset <= object_size
    /\ handles = <<>> => next_chunk_offset = 0
    /\ handles # <<>>
           => /\ handles[1].offset = 0
              /\ next_chunk_offset = handles[Len(handles)].offset
                                         + handles[Len(handles)].accounted
    /\ \A i \in 1..Len(handles) :
           /\ handles[i].accounted > 0
           /\ handles[i].offset < object_size
           /\ i < Len(handles)
                  => /\ handles[i + 1].offset
                            = handles[i].offset + handles[i].accounted
                     /\ handles[i].offset + handles[i].requested
                            <= handles[i + 1].offset

\* C17's case: a chunk has failed, its slot was used for a request made
\* after it, and the cursor has reached the end of an object whose last chunk
\* is a short one.
C17_Witness ==
    /\ Len(handles) > max_transfers
    /\ handles[1].status = "FAILED"
    /\ handles[1].promise = "exception"
    /\ next_chunk_offset = object_size
    /\ handles[Len(handles)].accounted < chunk_size

\* C18: no chunk whose future is still in the queue has been destroyed:
\* erasing a transfer from the transfers map never destroys a chunk the
\* consumer has yet to read.
C18_DestroyedAfterDelivery ==
    \A i \in 1..Len(chunks) : handles[chunks[i]].owner # "destroyed"

\* C19: a callback invocation that finds a terminal status fulfils the
\* promise with the chunk and erases the transfer when the status is
\* COMPLETED, fulfils it with an exception when it is any other, and runs to
\* its end (the scheduling step) either way.
C19_CallbackEffect ==
    /\ \A h \in 1..Len(handles) :
           handles[h].called
               => IF handles[h].status = "COMPLETED"
                  THEN handles[h].promise = "value" /\ h \notin transfers
                  ELSE handles[h].promise = "exception"
    /\ escaped = 0

\* C20: every callback invocation that finds a terminal status finds an
\* entry for its handle in the transfers map, whatever the interleaving and
\* however often the callback is invoked, so no promise is fulfilled a
\* second time and none through an entry that is not there.
C20_HandlePresent ==
    /\ missing = 0
    /\ pc # "crashed"

\* A step changes the window: the cursor, the transfers map or the queue.
WindowChanged ==
    <<next_chunk_offset, transfers, chunks>>' # <<next_chunk_offset, transfers, chunks>>

\* C21: every step that changes the window (cursor, transfers map, queue) is
\* taken by a thread that holds the mutex m of the invocation: either a
\* section that takes the free mutex and releases it (the first scheduling
\* step, a callback), or the consumer's step between its lock and its
\* release; while the consumer holds m no other thread changes the window,
\* and m is held by the consumer only inside that section.
C21_MutationsUnderLock ==
    [][/\ WindowChanged
           => \/ m = "free" /\ m' = "free"
              \/ m = "consumer" /\ pc = "get" /\ pc' # "get" /\ m' = "free"
       /\ m' = "consumer" => pc' = "get"]_vars

\* C21's case: the consumer holds the mutex while a finished transfer's
\* callback has yet to run, after another callback has changed the map.
C21_Witness ==
    /\ pc = "get"
    /\ m = "consumer"
    /\ \E h \in 1..Len(handles) :
           handles[h].status # "IN_PROGRESS" /\ ~handles[h].called
    /\ \E g \in 1..Len(handles) : handles[g].called /\ g \notin transfers

\* The session's operation is a chunked fetch.
FetchOp == op.name \in {"getFile", "isValid"}

\* C22: a chunked fetch whose size probe fails, whatever the error, fails
\* with that error: no range request was issued, the window is untouched and
\* the sink was never called.  The probe of an object that the bucket does
\* not hold can only fail, so such a fetch never gets past its probe.
C22_ProbeFailureStopsFetch ==
    /\ (FetchOp /\ ~remote[op.key].present /\ pc # "probe")
           => /\ pc \in {"raised", "idle"}
              /\ result.err \in S3Errors
    /\ (/\ FetchOp
        /\ pc \in {"raised", "idle"}
        /\ result.name \in {"getObject", "getFile", "isValid"}
        /\ result.err \in S3Errors)
           => /\ result.outcome = "S3Error"
              /\ net.head = 1
              /\ handles = <<>>
              /\ transfers = {}
              /\ chunks = <<>>
              /\ next_chunk_offset = 0
              /\ sunk = <<>>

\* C22's case: the probe of an object that is in the bucket was denied, and
\* the getFile has failed.
C22_Witness ==
    /\ pc = "idle"
    /\ result.name = "getFile"
    /\ result.err = "ACCESS_DENIED"
    /\ remote[op.key].present
    /\ Len(remote[op.key].body) > 0
    /\ handles = <<>>

\* The categories of keys in upsertFile's order, whether a key belongs to
\* one, and the codec configured for one.
Categories == <<"narinfo", "ls", "log">>

InCategory(key, k) ==
    CASE Categories[k] = "narinfo" -> hasSuffix(key, NarinfoSuffix)
      [] Categories[k] = "ls" -> hasSuffix(key, LsSuffix)
      [] OTHER -> hasPrefix(key, LogPrefix)

CodecOf(c, k) ==
    CASE Categories[k] = "narinfo" -> c.narinfoCompression
      [] Categories[k] = "ls" -> c.lsCompression
      [] OTHER -> c.logCompression

\* The codec of the first category among ks, "" if ks is empty.
FirstCodec(c, ks) ==
    IF ks = {} THEN ""
    ELSE CodecOf(c, CHOOSE k \in ks : \A j \in ks : k <= j)

\* Upload u was planned with this codec ("" for none): stream and content
\* encoding are as the claim says, and with the engine a codec means the
\* configuration error.
PlannedWith(u, codec) ==
    /\ u.contentEncoding = codec
    /\ u.body = IF codec # "" THEN compress(codec, u.data) ELSE u.data
    /\ (u.engine /\ codec # "")
           => /\ u.outcome = "Error"
              /\ u.err = "content encoding with multi-part"

\* C23 as the claim has it: the first category the key belongs to decides:
\* the payload is compressed with its codec if it has one, and passed
\* through otherwise.
C23_Original ==
    \A i \in 1..Len(uploads) :
        PlannedWith(uploads[i],
            FirstCodec(cfg, {k \in DOMAIN Categories :
                                InCategory(uploads[i].key, k)}))

\* C23, amended: the first category that the key belongs to and that has a
\* codec decides: the payload is compressed with that codec, and passed
\* through only if no category of the key has a codec; with the engine,
\* every upload of a key one of whose categories has a codec ends in the
\* configuration error.
C23_PlanSelection ==
    \A i \in 1..Len(uploads) :
        PlannedWith(uploads[i],
            FirstCodec(cfg, {k \in DOMAIN Categories :
                                /\ InCategory(uploads[i].key, k)
                                /\ CodecOf(cfg, k) # ""}))

\* C23's case: a key that is a .narinfo and a log was uploaded, with a codec
\* for logs and none for .narinfo files, and was compressed as a log.
C23_Witness ==
    /\ Len(uploads) = 1
    /\ uploads[1].key = KeyLogNarinfo
    /\ cfg.narinfoCompression = ""
    /\ cfg.logCompression = "xz"
    /\ uploads[1].contentEncoding = "xz"
    /\ uploads[1].body = compress("xz", uploads[1].data)
    /\ Len(uploads[1].data) = MaxPayload
    /\ uploads[1].outcome = "ok"

====
